---- MODULE Spec2Model ----
(***************************************************************************)
(* A model of the storage Node of src/src/node/node/node.go: an in-memory  *)
(* table guarded by one mutex (Put / Get / Del) and a heartbeat goroutine  *)
(* stopped through the unbuffered channel node.test (Heartbeats / Stop).   *)
(*                                                                         *)
(* Every call is taken in its steps: Lock, the map lookup, the branch up   *)
(* to the return statement, the deferred Unlock.                           *)
(*                                                                         *)
(* Spec      the whole Node: a CRUD caller making call after call, a       *)
(*           heartbeat goroutine, a Stop() call                            *)
(* SeqSpec   a sequential caller making call after call, with the history *)
(*           of its latest calls                                           *)
(* CrudSpec  concurrent CRUD callers, each making call after call          *)
(* RaceSpec  concurrent Put calls on one key, one call per caller          *)
(* HbSpec    Heartbeats() and Stop() calls and the goroutines' loops       *)
(***************************************************************************)
EXTENDS Integers, Sequences, FiniteSets, TLC

\* ------------------------------------------------------------------ bounds
NumCallers == 2      \* concurrent CRUD callers of CrudSpec
NumRacers == 3       \* concurrent Put callers of RaceSpec
NumKeys == 2         \* record identifiers
MaxLen == 1          \* longest payload, in bytes
NumTasks == 2        \* Heartbeats() calls of HbSpec (goroutines started)
NumStoppers == 2     \* Stop() calls of HbSpec

Callers == 1..NumCallers
Racers == 1..NumRacers
Keys == 1..NumKeys
Tasks == 1..NumTasks
Stoppers == 1..NumStoppers
\* Every process the state has a slot for.
AllCallers == Callers \cup Racers
\* The processes of Spec.
SysCallers == {1}
SysTasks == {1}
SysStoppers == {1}

\* ------------------------------------------------------------- value types
\* A Go []byte: the nil slice and the empty non-nil slice both have length 0.
NilSlice == [isNil |-> TRUE, bytes |-> <<>>]
MkSlice(n) == [isNil |-> FALSE, bytes |-> [i \in 1..n |-> n]]
\* The payloads callers pass: non-nil slices, the empty one among them. (The
\* code never looks into d, so a nil argument goes the way of the empty one.)
Payloads == {MkSlice(n) : n \in 0..MaxLen}

ErrNil == "nil"
ErrRecordExists == "ErrRecordExists"
ErrRecordNotFound == "ErrRecordNotFound"

NoOp == [kind |-> "none", k |-> 0, p |-> NilSlice]
NoLoc == [ok |-> FALSE, d |-> NilSlice]
NoRes == [err |-> "none", d |-> NilSlice]
NoRet == [op |-> NoOp, res |-> NoRes]
NoOutcome == "none"
Outcomes == {"ok", "error"}
PutOp(k, p) == [kind |-> "Put", k |-> k, p |-> p]
GetOp(k) == [kind |-> "Get", k |-> k, p |-> NilSlice]
DelOp(k) == [kind |-> "Del", k |-> k, p |-> NilSlice]
Ops == {PutOp(k, p) : k \in Keys, p \in Payloads}
         \cup {GetOp(k) : k \in Keys} \cup {DelOp(k) : k \in Keys}

VARIABLES
  data,    \* node.data: the table, a function from the keys present to payloads
  lock,    \* node.lock: TRUE while the mutex is held
  test,    \* node.test: the Stop() calls parked sending on the unbuffered channel
  pc,      \* each CRUD caller's position in its call
  op,      \* each CRUD caller's call in progress: kind, key, payload
  loc,     \* each CRUD caller's locals of the comma-ok lookup: ok, d
  res,     \* each CRUD caller's return value: err, d
  hb,      \* each heartbeat goroutine's position in startHb
  stop,    \* each Stop() call's position
  abs,     \* history: the atomic map a sequential execution in act order builds
  absRes,  \* history: the result the atomic map gives each caller's call
  live,    \* history: keys whose last successful Put was not followed by a successful Del
  ret,     \* history (RaceSpec): the call each caller has returned from, with its result
  sent,    \* history: per key, the payload of a Put made while the key was
           \* absent, no Del of the key made since
  hist,    \* history (SeqSpec): the latest calls, as far as they follow Script
  out      \* history: what each goroutine's latest Client.Heartbeat call returned
           \* (the code discards it)

vars == <<data, lock, test, pc, op, loc, res, hb, stop, abs, absRes, live, ret, sent, hist, out>>
crudVars == <<data, lock, pc, op, loc, res, abs, absRes, live, sent, hist>>
hbVars == <<test, hb, stop, out>>

\* ---------------------------------------------------- the table, as the code
EmptyMap == [x \in {} |-> NilSlice]

\* d, ok := node.data[k]: a missing key reads as the zero value, the nil slice.
Lookup(m, k) == IF k \in DOMAIN m THEN [ok |-> TRUE, d |-> m[k]]
                ELSE [ok |-> FALSE, d |-> NilSlice]

\* node.data[k] = d
MapStore(m, k, p) == [x \in DOMAIN m \cup {k} |-> IF x = k THEN p ELSE m[x]]

\* delete(node.data, k)
MapDelete(m, k) == [x \in DOMAIN m \ {k} |-> m[x]]

\* PutBody storing the payload also when the key was found.
PutBodyOverwrite(m, k, p, l) ==
  [data |-> MapStore(m, k, p), res |-> [err |-> IF l.ok THEN ErrRecordExists ELSE ErrNil, d |-> NilSlice]]
\* PutBody returning nil also when the key was found.
PutBodyNilOnExists(m, k, p, l) ==
  [data |-> IF l.ok THEN m ELSE MapStore(m, k, p), res |-> [err |-> ErrNil, d |-> NilSlice]]
\* PutBody taking an entry of length 0 for a missing one.
PutBodyOverEmpty(m, k, p, l) ==
  IF ~l.ok \/ Len(l.d.bytes) = 0
  THEN [data |-> MapStore(m, k, p), res |-> [err |-> ErrNil, d |-> NilSlice]]
  ELSE [data |-> m, res |-> [err |-> ErrRecordExists, d |-> NilSlice]]
\* Put, after the lookup: store and return nil when the key was not found,
\* return ErrRecordExists otherwise.
PutBody(m, k, p, l) ==
  IF ~l.ok THEN [data |-> MapStore(m, k, p), res |-> [err |-> ErrNil, d |-> NilSlice]]
  ELSE [data |-> m, res |-> [err |-> ErrRecordExists, d |-> NilSlice]]

\* DelBody returning nil without deleting.
DelBodyKeeps(m, k, l) ==
  IF l.ok THEN [data |-> m, res |-> [err |-> ErrNil, d |-> NilSlice]]
  ELSE [data |-> m, res |-> [err |-> ErrRecordNotFound, d |-> NilSlice]]
\* DelBody emptying the whole map.
DelBodyClears(m, k, l) ==
  IF l.ok THEN [data |-> EmptyMap, res |-> [err |-> ErrNil, d |-> NilSlice]]
  ELSE [data |-> m, res |-> [err |-> ErrRecordNotFound, d |-> NilSlice]]
\* DelBody returning nil also when the key was not found.
DelBodyAlwaysNil(m, k, l) ==
  [data |-> MapDelete(m, k), res |-> [err |-> ErrNil, d |-> NilSlice]]
\* Del, after the lookup: delete and return nil when the key was found,
\* return ErrRecordNotFound otherwise.
DelBody(m, k, l) ==
  IF l.ok THEN [data |-> MapDelete(m, k), res |-> [err |-> ErrNil, d |-> NilSlice]]
  ELSE [data |-> m, res |-> [err |-> ErrRecordNotFound, d |-> NilSlice]]

\* GetBody removing the entry it returns.
GetBodyTakes(m, k, l) ==
  IF l.ok THEN [data |-> MapDelete(m, k), res |-> [err |-> ErrNil, d |-> l.d]]
  ELSE [data |-> m, res |-> [err |-> ErrRecordNotFound, d |-> NilSlice]]
\* GetBody taking a payload of length 0 for a missing entry.
GetBodyNilForEmpty(m, k, l) ==
  IF l.ok /\ Len(l.d.bytes) > 0 THEN [data |-> m, res |-> [err |-> ErrNil, d |-> l.d]]
  ELSE [data |-> m, res |-> [err |-> ErrRecordNotFound, d |-> NilSlice]]
\* Get, after the lookup: return the payload read when the key was found,
\* nil and ErrRecordNotFound otherwise.
GetBody(m, k, l) ==
  IF l.ok THEN [data |-> m, res |-> [err |-> ErrNil, d |-> l.d]]
  ELSE [data |-> m, res |-> [err |-> ErrRecordNotFound, d |-> NilSlice]]

\* The body of the call o after its lookup gave l.
Body(m, o, l) ==
  CASE o.kind = "Put" -> PutBody(m, o.k, o.p, l)
    [] o.kind = "Del" -> DelBody(m, o.k, l)
    [] o.kind = "Get" -> GetBody(m, o.k, l)

\* ------------------------------------------------- the history variables
\* The atomic map specification: one call applied to the map m in one step.
AtomicApply(m, o) ==
  CASE o.kind = "Put" ->
         IF o.k \in DOMAIN m THEN [map |-> m, res |-> [err |-> ErrRecordExists, d |-> NilSlice]]
         ELSE [map |-> [x \in DOMAIN m \cup {o.k} |-> IF x = o.k THEN o.p ELSE m[x]],
               res |-> [err |-> ErrNil, d |-> NilSlice]]
    [] o.kind = "Del" ->
         IF o.k \in DOMAIN m THEN [map |-> [x \in DOMAIN m \ {o.k} |-> m[x]],
                                   res |-> [err |-> ErrNil, d |-> NilSlice]]
         ELSE [map |-> m, res |-> [err |-> ErrRecordNotFound, d |-> NilSlice]]
    [] o.kind = "Get" ->
         IF o.k \in DOMAIN m THEN [map |-> m, res |-> [err |-> ErrNil, d |-> m[o.k]]]
         ELSE [map |-> m, res |-> [err |-> ErrRecordNotFound, d |-> NilSlice]]

\* The keys live after a call o that returned r: a Put that succeeded makes its
\* key live, a Del that succeeded ends that.
LiveAfter(lv, o, r) ==
  CASE o.kind = "Put" /\ r.err = ErrNil -> lv \cup {o.k}
    [] o.kind = "Del" /\ r.err = ErrNil -> lv \ {o.k}
    [] OTHER -> lv

\* What was sent for each key after the call o made on the table m: a Put on an
\* absent key sends its payload, a Del withdraws what was sent for its key.
SentAfter(st, m, o) ==
  CASE o.kind = "Put" /\ o.k \notin DOMAIN m ->
         [x \in DOMAIN st \cup {o.k} |-> IF x = o.k THEN o.p ELSE st[x]]
    [] o.kind = "Del" -> [x \in DOMAIN st \ {o.k} |-> st[x]]
    [] OTHER -> st

\* The delete-then-re-insert sequence: Put(k, p), Del(k), Get(k), Put(k, p2), Get(k).
Script == <<"Put", "Del", "Get", "Put", "Get">>
\* The calls h are the first calls of that sequence, made on one key that was
\* absent at the first.
FollowsScript(h) ==
  /\ Len(h) <= Len(Script)
  /\ \A j \in 1..Len(h) : h[j].op.kind = Script[j] /\ h[j].op.k = h[1].op.k
  /\ Len(h) > 0 => h[1].absent
\* The longest suffix of h that follows the script.
Keep(h) ==
  LET from == {i \in 1..(Len(h) + 1) : FollowsScript(SubSeq(h, i, Len(h)))}
      first == CHOOSE i \in from : \A j \in from : i <= j
  IN SubSeq(h, first, Len(h))
\* The history after the call o, made on the table m, returned r.
HistAfter(h, m, o, r) ==
  Keep(Append(h, [op |-> o, res |-> r, absent |-> o.k \notin DOMAIN m]))

\* -------------------------------------------------------------------- Init
\* New(cfg): an unlocked mutex, an unbuffered channel, an empty map.
Init ==
  /\ data = EmptyMap
  /\ lock = FALSE
  /\ test = {}
  /\ pc = [c \in AllCallers |-> "idle"]
  /\ op = [c \in AllCallers |-> NoOp]
  /\ loc = [c \in AllCallers |-> NoLoc]
  /\ res = [c \in AllCallers |-> NoRes]
  /\ hb = [t \in Tasks |-> "none"]
  /\ stop = [s \in Stoppers |-> "idle"]
  /\ abs = EmptyMap
  /\ absRes = [c \in AllCallers |-> NoRes]
  /\ live = {}
  /\ ret = [c \in AllCallers |-> NoRet]
  /\ sent = EmptyMap
  /\ hist = <<>>
  /\ out = [t \in Tasks |-> NoOutcome]

\* ------------------------------------------------- Put / Get / Del, by step
\* A caller invokes Put(k, p), Get(k) or Del(k).
Call(c, o) ==
  /\ pc[c] = "idle"
  /\ pc' = [pc EXCEPT ![c] = "lock"]
  /\ op' = [op EXCEPT ![c] = o]
  /\ UNCHANGED <<data, lock, loc, res, abs, absRes, live, ret, sent, hist, hbVars>>

\* Lock letting the caller in while the mutex is held.
LockNoWait(c) ==
  /\ pc[c] = "lock"
  /\ lock' = TRUE
  /\ pc' = [pc EXCEPT ![c] = "check"]
  /\ UNCHANGED <<data, op, loc, res, abs, absRes, live, ret, sent, hist, hbVars>>

\* node.lock.Lock(): blocks while the mutex is held.
Lock(c) ==
  /\ pc[c] = "lock"
  /\ ~lock
  /\ lock' = TRUE
  /\ pc' = [pc EXCEPT ![c] = "check"]
  /\ UNCHANGED <<data, op, loc, res, abs, absRes, live, ret, sent, hist, hbVars>>

\* The comma-ok lookup node.data[k] of the if statement.
Check(c) ==
  /\ pc[c] = "check"
  /\ loc' = [loc EXCEPT ![c] = Lookup(data, op[c].k)]
  /\ pc' = [pc EXCEPT ![c] = "act"]
  /\ UNCHANGED <<data, lock, op, res, abs, absRes, live, ret, sent, hist, hbVars>>

\* The branch taken after the lookup, up to the return statement. (hist is
\* left to the specification: SeqSpec records the call in it.)
Act(c) ==
  /\ pc[c] = "act"
  /\ LET b == Body(data, op[c], loc[c])
         a == AtomicApply(abs, op[c])
     IN /\ data' = b.data
        /\ res' = [res EXCEPT ![c] = b.res]
        /\ abs' = a.map
        /\ absRes' = [absRes EXCEPT ![c] = a.res]
        /\ live' = LiveAfter(live, op[c], b.res)
        /\ sent' = SentAfter(sent, data, op[c])
  /\ pc' = [pc EXCEPT ![c] = "unlock"]
  /\ UNCHANGED <<lock, op, loc, ret, hbVars>>

\* The deferred node.lock.Unlock(), after which the call has returned and its
\* frame is gone. (ret is left to the specification: RaceSpec records the
\* returned result in it.)
Unlock(c) ==
  /\ pc[c] = "unlock"
  /\ lock' = FALSE
  /\ pc' = [pc EXCEPT ![c] = "idle"]
  /\ op' = [op EXCEPT ![c] = NoOp]
  /\ loc' = [loc EXCEPT ![c] = NoLoc]
  /\ res' = [res EXCEPT ![c] = NoRes]
  /\ absRes' = [absRes EXCEPT ![c] = NoRes]
  /\ UNCHANGED <<data, abs, live, sent, hist, hbVars>>

\* ---------------------------------------------------- Heartbeats and Stop
\* Heartbeats starting over with a fresh channel, the parked Stop() calls left
\* behind on the old one.
HeartbeatsDiscards(t) ==
  /\ hb[t] = "none"
  /\ hb' = [hb EXCEPT ![t] = "select"]
  /\ test' = {}
  /\ UNCHANGED <<stop, out, crudVars, ret>>

\* Heartbeats(): go startHb(node); the goroutine starts at the top of its loop.
Heartbeats(t) ==
  /\ hb[t] = "none"
  /\ hb' = [hb EXCEPT ![t] = "select"]
  /\ UNCHANGED <<test, stop, out, crudVars, ret>>

\* HbRecv ending every running goroutine, as a receive from a closed channel
\* would.
HbRecvStopsAll(t) ==
  /\ hb[t] = "select"
  /\ \E s \in test :
       /\ test' = test \ {s}
       /\ stop' = [stop EXCEPT ![s] = "woken"]
  /\ hb' = [u \in Tasks |-> IF hb[u] \in {"select", "call", "sleep"} THEN "recv" ELSE hb[u]]
  /\ UNCHANGED <<out, crudVars, ret>>

\* HbRecv releasing every parked Stop() call, not the one whose value it took.
HbRecvWakesAll(t) ==
  /\ hb[t] = "select"
  /\ test # {}
  /\ test' = {}
  /\ stop' = [s \in Stoppers |-> IF s \in test THEN "woken" ELSE stop[s]]
  /\ hb' = [hb EXCEPT ![t] = "recv"]
  /\ UNCHANGED <<out, crudVars, ret>>

\* select, case <-node.test: a parked Stop() hands over its value.
HbRecv(t) ==
  /\ hb[t] = "select"
  /\ \E s \in test :
       /\ test' = test \ {s}
       /\ stop' = [stop EXCEPT ![s] = "woken"]
  /\ hb' = [hb EXCEPT ![t] = "recv"]
  /\ UNCHANGED <<out, crudVars, ret>>

\* HbDefault holding the table lock over the call to the router client.
HbDefaultLocks(t) ==
  /\ hb[t] = "select"
  /\ test = {}
  /\ ~lock
  /\ lock' = TRUE
  /\ hb' = [hb EXCEPT ![t] = "call"]
  /\ UNCHANGED <<test, stop, out, data, pc, op, loc, res, abs, absRes, live, sent, hist, ret>>

\* HbDefault taken also while a sender is parked on node.test.
HbDefaultAnyway(t) ==
  /\ hb[t] = "select"
  /\ hb' = [hb EXCEPT ![t] = "call"]
  /\ UNCHANGED <<test, stop, out, crudVars, ret>>

\* select, default: taken only when no sender is parked on node.test;
\* the goroutine enters node.cfg.Client.Heartbeat(Router, Addr).
HbDefault(t) ==
  /\ hb[t] = "select"
  /\ test = {}
  /\ hb' = [hb EXCEPT ![t] = "call"]
  /\ UNCHANGED <<test, stop, out, crudVars, ret>>

\* HbCallReturn leaving the loop when the call returned an error.
HbCallReturnAborts(t) ==
  /\ hb[t] = "call"
  /\ \E outcome \in Outcomes :
       /\ out' = [out EXCEPT ![t] = outcome]
       /\ hb' = [hb EXCEPT ![t] = IF outcome = "error" THEN "done" ELSE "sleep"]
  /\ UNCHANGED <<test, stop, crudVars, ret>>

\* Client.Heartbeat returns, with success or with an error; the statement
\* discards the result.
HbCallReturn(t) ==
  /\ hb[t] = "call"
  /\ \E outcome \in Outcomes : out' = [out EXCEPT ![t] = outcome]
  /\ hb' = [hb EXCEPT ![t] = "sleep"]
  /\ UNCHANGED <<test, stop, crudVars, ret>>

\* time.Sleep(node.cfg.Heartbeat) ends; the loop starts over.
HbSleepDone(t) ==
  /\ hb[t] = "sleep"
  /\ hb' = [hb EXCEPT ![t] = "select"]
  /\ UNCHANGED <<test, stop, out, crudVars, ret>>

\* return: the goroutine ends.
HbExit(t) ==
  /\ hb[t] = "recv"
  /\ hb' = [hb EXCEPT ![t] = "done"]
  /\ UNCHANGED <<test, stop, out, crudVars, ret>>

\* Stop giving up the send when no receiver waits, as a select with a
\* default case would.
StopTrySend(s) ==
  /\ stop[s] = "idle"
  /\ stop' = [stop EXCEPT ![s] = "returned"]
  /\ UNCHANGED <<test, hb, out, crudVars, ret>>

\* Stop(): node.test <- struct{}{} parks the caller, no receiver ever waits.
Stop(s) ==
  /\ stop[s] = "idle"
  /\ stop' = [stop EXCEPT ![s] = "send"]
  /\ test' = test \cup {s}
  /\ UNCHANGED <<hb, out, crudVars, ret>>

\* StopReturn not waiting for the goroutine to take the value.
StopReturnNoWait(s) ==
  /\ stop[s] \in {"send", "woken"}
  /\ stop' = [stop EXCEPT ![s] = "returned"]
  /\ test' = test \ {s}
  /\ UNCHANGED <<hb, out, crudVars, ret>>

\* Stop() returns once its send has been received.
StopReturn(s) ==
  /\ stop[s] = "woken"
  /\ stop' = [stop EXCEPT ![s] = "returned"]
  /\ UNCHANGED <<test, hb, out, crudVars, ret>>

\* ---------------------------------------------------------- specifications
\* The steps of the CRUD callers cs, each making call after call.
CrudStep(cs) ==
  \E c \in cs :
    \/ \E o \in Ops : Call(c, o)
    \/ Lock(c) \/ Check(c)
    \/ Act(c) /\ UNCHANGED hist
    \/ Unlock(c) /\ UNCHANGED ret

\* The steps of the heartbeat goroutines ts and the Stop() calls ss.
HbStep(ts, ss) ==
  \/ \E t \in ts : Heartbeats(t) \/ HbRecv(t) \/ HbDefault(t)
                     \/ HbCallReturn(t) \/ HbSleepDone(t) \/ HbExit(t)
  \/ \E s \in ss : Stop(s) \/ StopReturn(s)

\* The whole Node: a CRUD caller, a heartbeat goroutine and a Stop() call.
Next == CrudStep(SysCallers) \/ HbStep(SysTasks, SysStoppers)
Spec == Init /\ [][Next]_vars

\* The calls of the sequential caller: those of Ops, and Put with a nil slice.
SeqOps == Ops \cup {PutOp(k, NilSlice) : k \in Keys}

\* A sequential caller, its latest calls recorded.
SeqNext ==
  \E c \in SysCallers :
    \/ \E o \in SeqOps : Call(c, o)
    \/ Lock(c) \/ Check(c)
    \/ Act(c) /\ hist' = HistAfter(hist, data, op[c], res'[c])
    \/ Unlock(c) /\ UNCHANGED ret
SeqSpec == Init /\ [][SeqNext]_vars

\* Concurrent CRUD callers.
CrudNext == CrudStep(Callers)
CrudSpec == Init /\ [][CrudNext]_vars

\* Concurrent Put calls on one key, one call per caller, the results kept.
RaceNext ==
  \E c \in Racers :
    \/ \E k \in Keys, p \in Payloads :
         /\ ret[c] = NoRet
         /\ \A e \in Racers : op[e].kind = "Put" => op[e].k = k
         /\ \A e \in Racers : ret[e].op.kind = "Put" => ret[e].op.k = k
         /\ Call(c, PutOp(k, p))
    \/ Lock(c) \/ Check(c)
    \/ Act(c) /\ UNCHANGED hist
    \/ Unlock(c) /\ ret' = [ret EXCEPT ![c] = [op |-> op[c], res |-> res[c]]]
RaceSpec == Init /\ [][RaceNext]_vars

\* Heartbeats() and Stop() calls and the goroutines they start and stop.
HbNext == HbStep(Tasks, Stoppers)
HbSpec == Init /\ [][HbNext]_vars

\* Scheduling of the CRUD callers cs: a call that has begun keeps running, and
\* a caller waiting in Lock() gets the mutex when it is free again and again
\* (sync.Mutex hands it to a starving waiter). Whether another call is made
\* is up to the caller.
CrudFair(cs) ==
  \A c \in cs :
    /\ SF_vars(Lock(c))
    /\ WF_vars(Check(c) \/ (Act(c) /\ UNCHANGED hist) \/ (Unlock(c) /\ UNCHANGED ret))

\* Scheduling of the goroutines ts and the Stop() calls ss: a select completes,
\* every Client.Heartbeat call returns, every sleep ends, a goroutine at its
\* return ends, and a Stop() whose send was received returns. Whether
\* Heartbeats() or Stop() is called is up to the caller.
HbFair(ts, ss) ==
  /\ \A t \in ts :
       /\ WF_vars(HbRecv(t) \/ HbDefault(t))
       /\ WF_vars(HbCallReturn(t))
       /\ WF_vars(HbSleepDone(t))
       /\ WF_vars(HbExit(t))
  /\ \A s \in ss : WF_vars(StopReturn(s))

\* The whole Node with the CRUD caller scheduled; the router client and the
\* timer are free never to return.
CrudLiveSpec == Spec /\ CrudFair(SysCallers)

\* The whole Node with the goroutine and the Stop() call scheduled, every
\* router-client call returning and every sleep ending.
LiveSpec == Spec /\ HbFair(SysTasks, SysStoppers)

\* The goroutines and Stop() calls of HbSpec, scheduled likewise.
HbLiveSpec == HbSpec /\ HbFair(Tasks, Stoppers)

\* ------------------------------------------------------------------ claims
\* The step of caller c from the lookup's result to the return statement.
Acts(c, kind) == pc[c] = "act" /\ pc'[c] = "unlock" /\ op[c].kind = kind
\* A step of caller c in a call of this kind other than that one.
OtherStep(c, kind) ==
  /\ pc'[c] # pc[c]
  /\ op[c].kind = kind \/ op'[c].kind = kind
  /\ ~Acts(c, kind)
\* The table after differs from the table before only in mapping k to p.
OnlyAdds(before, after, k, p) ==
  /\ DOMAIN after = DOMAIN before \cup {k}
  /\ after[k] = p
  /\ \A x \in DOMAIN before \ {k} : after[x] = before[x]
\* The table after is the table before with k removed.
OnlyRemoves(before, after, k) ==
  /\ DOMAIN after = DOMAIN before \ {k}
  /\ \A x \in DOMAIN after : after[x] = before[x]

Returned == {c \in Racers : ret[c] # NoRet}

\* C1: N >= 1 concurrent Put(k, p_i) calls on a key absent when they start, no
\* Del(k) among them: in every interleaving, once all have returned, exactly
\* one has returned success, the others RecordExists, and the table maps k to
\* the payload of the successful caller.
C1_ConcurrentPutRace ==
  (Returned # {} /\ \A c \in Racers : pc[c] = "idle")
    => \E w \in Returned :
         /\ ret[w].res.err = ErrNil
         /\ \A c \in Returned \ {w} : ret[c].res.err = ErrRecordExists
         /\ ret[w].op.k \in DOMAIN data
         /\ data[ret[w].op.k] = ret[w].op.p

\* Every caller has returned, the last one with success, the others with
\* RecordExists for another payload.
C1_Witness ==
  /\ Returned = Racers
  /\ ret[NumRacers].res.err = ErrNil
  /\ \A c \in Racers \ {NumRacers} :
       ret[c].res.err = ErrRecordExists /\ ret[c].op.p # ret[NumRacers].op.p

\* C2: Put never overwrites: on a present key it returns RecordExists and leaves
\* the whole table unchanged; on an absent key it returns success and the table
\* changes only in mapping k to p; it returns nothing but success or RecordExists.
C2_PutNeverOverwrites ==
  [][\A c \in AllCallers :
       /\ Acts(c, "Put") =>
            /\ op[c].k \in DOMAIN data => res'[c].err = ErrRecordExists /\ data' = data
            /\ op[c].k \notin DOMAIN data =>
                 res'[c].err = ErrNil /\ OnlyAdds(data, data', op[c].k, op[c].p)
            /\ res'[c].err \in {ErrNil, ErrRecordExists}
       /\ OtherStep(c, "Put") => data' = data]_vars

\* A Put on a present key holding another payload has returned RecordExists.
C2_Witness ==
  \E c \in AllCallers :
    /\ pc[c] = "unlock" /\ op[c].kind = "Put" /\ res[c].err = ErrRecordExists
    /\ op[c].k \in DOMAIN data /\ data[op[c].k] # op[c].p

\* C3: round trip: a Put(k, p) on an absent key succeeds, and a later Get(k)
\* with no Del(k) in between returns success with exactly p, whatever was done
\* to other keys in between.
C3_PutGetRoundTrip ==
  [][\A c \in AllCallers :
       /\ Acts(c, "Put") /\ op[c].k \notin DOMAIN data => res'[c].err = ErrNil
       /\ Acts(c, "Get") /\ op[c].k \in DOMAIN sent =>
            res'[c] = [err |-> ErrNil, d |-> sent[op[c].k]]]_vars

\* A Get has returned the empty payload put before, the other keys present too.
C3_Witness ==
  \E c \in AllCallers :
    /\ pc[c] = "unlock" /\ op[c].kind = "Get"
    /\ DOMAIN sent = Keys /\ sent[op[c].k] = MkSlice(0)
    /\ res[c] = [err |-> ErrNil, d |-> MkSlice(0)]

\* C4: Get is read-only: it returns the stored payload with success on a present
\* key and RecordNotFound with no payload on an absent key, and the table after
\* Get equals the table before.
C4_GetReadOnly ==
  [][\A c \in AllCallers :
       /\ Acts(c, "Get") =>
            /\ op[c].k \in DOMAIN data =>
                 res'[c] = [err |-> ErrNil, d |-> data[op[c].k]]
            /\ op[c].k \notin DOMAIN data =>
                 res'[c] = [err |-> ErrRecordNotFound, d |-> NilSlice]
            /\ data' = data
       /\ OtherStep(c, "Get") => data' = data]_vars

\* A Get has found a key and returned its payload, the key still in the table.
C4_Witness ==
  \E c \in AllCallers :
    /\ pc[c] = "unlock" /\ op[c].kind = "Get" /\ res[c].err = ErrNil
    /\ op[c].k \in DOMAIN data /\ data[op[c].k] = res[c].d
    /\ res[c].d = MkSlice(MaxLen)

\* C5: Del removes exactly the entry for k: on a present key it returns success
\* and the table is the table before without k, every other key unchanged; on
\* an absent key it returns RecordNotFound and the table is unchanged.
C5_DelRemovesExactly ==
  [][\A c \in AllCallers :
       /\ Acts(c, "Del") =>
            /\ op[c].k \in DOMAIN data =>
                 res'[c].err = ErrNil /\ OnlyRemoves(data, data', op[c].k)
            /\ op[c].k \notin DOMAIN data =>
                 res'[c].err = ErrRecordNotFound /\ data' = data
       /\ OtherStep(c, "Del") => data' = data]_vars

\* A Del has removed its key and every other key is still in the table.
C5_Witness ==
  \E c \in AllCallers :
    /\ pc[c] = "unlock" /\ op[c].kind = "Del" /\ res[c].err = ErrNil
    /\ DOMAIN data = Keys \ {op[c].k}

\* C6: not-found guard: a key is in the table only if a Put on it succeeded and
\* no Del on it succeeded since (so a new Node's table, no Put having succeeded,
\* is empty), and a Get or a Del on a key that is not live in that sense fails
\* with RecordNotFound, whatever Heartbeats(), Stop() and the calls on other
\* keys have done.
C6_NotFoundGuard ==
  /\ [](DOMAIN data \subseteq live)
  /\ [][\A c \in AllCallers :
          (Acts(c, "Get") \/ Acts(c, "Del")) /\ op[c].k \notin live
            => res'[c].err = ErrRecordNotFound]_vars

\* After the heartbeat goroutine was started and stopped, a Get has returned
\* RecordNotFound for the one key that is not in the table.
C6_Witness ==
  \E c \in AllCallers :
    /\ pc[c] = "unlock" /\ op[c].kind = "Get" /\ res[c].err = ErrRecordNotFound
    /\ DOMAIN data = Keys \ {op[c].k}
    /\ \E t \in Tasks : hb[t] = "done"
    /\ \E s \in Stoppers : stop[s] = "returned"

\* What the j-th call of the delete-then-re-insert sequence h is to return.
Expected(h, j) ==
  CASE j = 3 -> [err |-> ErrRecordNotFound, d |-> NilSlice]
    [] j = 5 -> [err |-> ErrNil, d |-> h[4].op.p]
    [] OTHER -> [err |-> ErrNil, d |-> NilSlice]

\* C7: delete then re-insert: with k absent, Put(k, p), Del(k), Get(k),
\* Put(k, p2), Get(k) return success, success, RecordNotFound, success, and
\* success with payload p2.
C7_DeleteThenReinsert ==
  FollowsScript(hist) => \A j \in 1..Len(hist) : hist[j].res = Expected(hist, j)

\* The five calls have been made, the second payload unlike the first.
C7_Witness ==
  /\ Len(hist) = Len(Script)
  /\ hist[1].op.p = MkSlice(MaxLen)
  /\ hist[4].op.p = MkSlice(0)
  /\ hist[5].res.d = MkSlice(0)

InLock == {c \in AllCallers : pc[c] \in {"check", "act", "unlock"}}

\* C8: mutual exclusion: at most one Put, Get or Del call is between acquiring
\* and releasing the table lock, readers included.
C8_MutualExclusion ==
  /\ Cardinality(InLock) <= 1
  /\ lock <=> InLock # {}

\* A Get holds the lock while every other caller, a Get among them, waits for it.
C8_Witness ==
  \E c \in Callers :
    /\ pc[c] = "act" /\ op[c].kind = "Get"
    /\ \A e \in Callers \ {c} : pc[e] = "lock"
    /\ \E e \in Callers \ {c} : op[e].kind = "Get"

\* C9: linearizability: every call takes effect at one step between its
\* invocation and its return; the results returned and the table are those of
\* the atomic map executing the calls one at a time in the order of those steps.
C9_Linearizable ==
  /\ data = abs
  /\ \A c \in AllCallers :
       /\ pc[c] = "unlock" => res[c] = absRes[c] /\ res[c] # NoRes
       /\ pc[c] \in {"idle", "lock", "check", "act"} => absRes[c] = NoRes

\* A Get has found the payload of a key while a Del of that key, invoked
\* meanwhile, waits for the lock, the other keys present too.
C9_Witness ==
  \E c, e \in Callers :
    /\ pc[c] = "unlock" /\ op[c].kind = "Get"
    /\ res[c] = [err |-> ErrNil, d |-> MkSlice(MaxLen)]
    /\ pc[e] = "lock" /\ op[e] = DelOp(op[c].k)
    /\ DOMAIN data = Keys

Started == {t \in Tasks : hb[t] # "none"}
StopCalls == {s \in Stoppers : stop[s] # "idle"}
\* One Heartbeats() call, one Stop() call, and that Stop() has returned.
OneStopped ==
  /\ Cardinality(Started) = 1
  /\ Cardinality(StopCalls) = 1
  /\ \E s \in Stoppers : stop[s] = "returned"

\* C10: with one heartbeat goroutine and one Stop() call, once Stop() has
\* returned the goroutine has taken the signal, and no router-client heartbeat
\* call begins from then on.
C10_NoHeartbeatAfterStop ==
  /\ [](OneStopped => \A t \in Started : hb[t] \in {"recv", "done"})
  /\ [][OneStopped => \A t \in Tasks : hb'[t] = "call" => hb[t] = "call"]_vars

\* One goroutine was started and has ended, the one Stop() call has returned.
C10_Witness ==
  /\ OneStopped
  /\ \A t \in Started : hb[t] = "done"

\* The goroutines that run the loop: started, no stop signal taken yet.
Active == {t \in Tasks : hb[t] \in {"select", "call", "sleep"}}
\* The goroutines that have taken a stop signal: at their return, or ended.
Stopped == {t \in Tasks : hb[t] \in {"recv", "done"}}
StopsReturned == {s \in Stoppers : stop[s] = "returned"}

\* C11 as stated: at most one heartbeat goroutine is active, in every state
\* reachable by any sequence of Heartbeats() and Stop() calls.
C11_AtMostOneActive == Cardinality(Active) <= 1

\* C11, amended: at most one heartbeat goroutine is active in every state in
\* which at most one Heartbeats() call is not matched by a Stop() call that has
\* returned.
C11_OneActiveWhenMatched ==
  Cardinality(Started) - Cardinality(StopsReturned) <= 1 => Cardinality(Active) <= 1

\* A second goroutine runs after the first was stopped and has ended.
C11_Witness ==
  /\ Cardinality(Started) = 2
  /\ Cardinality(StopsReturned) = 1
  /\ \E t \in Tasks : hb[t] = "done"
  /\ \E t \in Tasks : hb[t] = "call"

\* C12: Stop() called on a Node with no active heartbeat goroutine (none started,
\* or every one started already stopped) blocks: the call parks on the channel,
\* stays parked in every step taken while no goroutine is active, and no Stop()
\* call has got further than that while no goroutine has ever taken a signal.
C12_StopBlocksWithoutTask ==
  /\ [](Stopped = {} => \A s \in Stoppers : stop[s] \in {"idle", "send"})
  /\ [][\A s \in Stoppers :
          /\ stop[s] = "idle" /\ stop'[s] # "idle" => stop'[s] = "send" /\ s \in test'
          /\ stop[s] = "send" /\ Active = {} => stop'[s] = "send" /\ s \in test']_vars

\* A Stop() call is parked after the one goroutine started was stopped by
\* another Stop() call and has ended.
C12_Witness ==
  /\ Started # {} /\ \A t \in Started : hb[t] = "done"
  /\ \E s \in Stoppers : stop[s] = "returned"
  /\ \E s \in Stoppers : stop[s] = "send" /\ s \in test

\* C13: a failed router-client heartbeat call never ends the loop and never
\* reaches a Node caller: whatever the call returns, the goroutine goes on to
\* sleep, and from sleep to the next iteration's select, no CRUD caller's state
\* or result changes by it, and a goroutine stops being active by one step
\* only, its select receiving a parked Stop() call's value.
C13_FailureNeverEndsLoop ==
  [][\A t \in Tasks :
       /\ hb[t] = "call" /\ hb'[t] # "call" =>
            /\ hb'[t] = "sleep" /\ out'[t] \in Outcomes
            /\ <<data, lock, pc, op, loc, res>>' = <<data, lock, pc, op, loc, res>>
       /\ hb[t] = "sleep" /\ hb'[t] # "sleep" => hb'[t] = "select"
       /\ t \in Active /\ t \notin Active' =>
            /\ hb[t] = "select" /\ hb'[t] = "recv"
            /\ \E s \in test : stop[s] = "send" /\ stop'[s] = "woken"]_vars

\* After a heartbeat call that failed the goroutine is in the next one, while a
\* Put has returned success.
C13_Witness ==
  /\ \E t \in Tasks : out[t] = "error" /\ hb[t] = "call"
  /\ \E c \in AllCallers :
       pc[c] = "unlock" /\ op[c].kind = "Put" /\ res[c].err = ErrNil

\* C14: the heartbeat goroutine and the table share no state: no step changes
\* both the heartbeat side (the channel, a goroutine's or a Stop() call's
\* position) and the table side (the table, the lock, a CRUD caller's
\* position, locals or result), and every Put/Get/Del call that has begun
\* returns, also in the runs where the goroutine never comes back from the
\* router client or a Stop() call stays parked for ever.
C14_NoSharedState ==
  /\ [][~ /\ <<test, hb, stop>>' # <<test, hb, stop>>
          /\ <<data, lock, pc, op, loc, res>>' # <<data, lock, pc, op, loc, res>>]_vars
  /\ \A c \in SysCallers : (pc[c] # "idle") ~> (pc[c] = "idle")

\* A Del is about to return while the goroutine is in the router-client call
\* and a Stop() call is parked.
C14_Witness ==
  /\ \E c \in SysCallers :
       pc[c] = "unlock" /\ op[c].kind = "Del" /\ res[c].err = ErrNil
  /\ \E t \in Tasks : hb[t] = "call"
  /\ \E s \in Stoppers : stop[s] = "send"

\* C15: stop is checked before each send: a goroutine at its select while a
\* Stop() call is parked can only receive, after which it makes no heartbeat
\* call any more, and no heartbeat call is begun while a Stop() call is parked
\* (a call begun before returns as usual).
C15_StopCheckedBeforeSend ==
  [][\A t \in Tasks :
       /\ hb[t] = "select" /\ test # {} /\ hb'[t] # "select" => hb'[t] = "recv"
       /\ hb[t] # "call" /\ hb'[t] = "call" => hb[t] = "select" /\ test = {}
       /\ hb[t] = "call" /\ hb'[t] # "call" => hb'[t] = "sleep"
       /\ hb[t] \in {"recv", "done"} => hb'[t] \in {"recv", "done"}]_vars

\* A goroutine that made heartbeat calls before has received a Stop() call's
\* value at its select.
C15_Witness ==
  \E t \in Tasks, s \in Stoppers :
    /\ hb[t] = "recv" /\ out[t] # NoOutcome
    /\ stop[s] = "woken"
    /\ Cardinality(Started) = 1 /\ Cardinality(StopCalls) = 1

\* C16: with one goroutine running and a single Stop() call parked, under the
\* scheduling of LiveSpec (every router-client call returns, every sleep ends)
\* the Stop() call eventually returns and the goroutine eventually ends; a
\* parked Stop() call is released by no step but a goroutine's select
\* receiving, so it stays parked for as long as every running goroutine stays
\* in its router-client call.
C16_StopEventuallyReturns ==
  /\ \A t \in SysTasks, s \in SysStoppers :
       (t \in Active /\ stop[s] = "send") ~> (hb[t] = "done" /\ stop[s] = "returned")
  /\ [][\A s \in Stoppers :
          stop[s] = "send" /\ stop'[s] # "send" =>
            \E t \in Tasks : hb[t] = "select" /\ hb'[t] = "recv"]_vars
  /\ [][\A s \in Stoppers :
          /\ stop[s] = "send"
          /\ \A t \in Active : hb[t] = "call" /\ hb'[t] = "call"
          => stop'[s] = "send"]_vars

\* The Stop() call has returned and the goroutine, which had made heartbeat
\* calls, has ended.
C16_Witness ==
  \E t \in SysTasks, s \in SysStoppers :
    hb[t] = "done" /\ out[t] # NoOutcome /\ stop[s] = "returned"

\* Two Heartbeats() calls and one Stop() call have been made, and that Stop()
\* call has returned.
TwoStartedOneStopped ==
  /\ Cardinality(Started) = 2
  /\ Cardinality(StopCalls) = 1
  /\ StopsReturned # {}

\* C17: Heartbeats() called twice without a Stop() in between starts a second
\* loop: once the single Stop() call has returned exactly one of the two
\* goroutines has taken its signal and the other is still active, and in every
\* run that stays there (no second Stop() call, no further Heartbeats() call)
\* the other goroutine calls the router client again and again.
C17_DoubleHeartbeats ==
  /\ [](TwoStartedOneStopped => Cardinality(Stopped) = 1 /\ Cardinality(Active) = 1)
  /\ <>[]TwoStartedOneStopped =>
       /\ []<>(\E t \in Active : hb[t] = "call")
       /\ []<>(\E t \in Active : hb[t] = "sleep")

\* The second goroutine started was stopped and has ended after making heartbeat
\* calls, the first, which has made heartbeat calls too, is in another one.
C17_Witness ==
  /\ TwoStartedOneStopped
  /\ hb[2] = "done" /\ out[2] # NoOutcome
  /\ hb[1] = "call" /\ out[1] # NoOutcome

\* As C17_Witness, with the first goroutine started the one that was stopped.
C17_WitnessEither ==
  /\ TwoStartedOneStopped
  /\ hb[1] = "done" /\ out[1] # NoOutcome
  /\ hb[2] = "call" /\ out[2] # NoOutcome

\* A payload of length 0: the empty slice, or the nil slice.
IsEmpty(p) == Len(p.bytes) = 0

\* C18: an empty payload is a stored value, not absence: Put(k, empty) on an
\* absent key succeeds and stores it, and from then on, with no Del(k) made
\* since, Get(k) returns success with that empty payload, Put(k, p) fails with
\* RecordExists, and Del(k) succeeds.
C18_EmptyPayloadStored ==
  [][\A c \in AllCallers :
       /\ Acts(c, "Put") /\ op[c].k \notin DOMAIN data /\ IsEmpty(op[c].p) =>
            /\ res'[c].err = ErrNil
            /\ op[c].k \in DOMAIN data' /\ data'[op[c].k] = op[c].p
       /\ op[c].k \in DOMAIN sent /\ IsEmpty(sent[op[c].k]) =>
            /\ Acts(c, "Get") => res'[c] = [err |-> ErrNil, d |-> sent[op[c].k]]
            /\ Acts(c, "Put") => res'[c].err = ErrRecordExists
            /\ Acts(c, "Del") => res'[c].err = ErrNil]_vars

\* A Put with a payload of one byte has returned RecordExists for a key that
\* holds the nil slice put before.
C18_Witness ==
  \E c \in AllCallers :
    /\ pc[c] = "unlock" /\ op[c].kind = "Put" /\ op[c].p = MkSlice(MaxLen)
    /\ res[c].err = ErrRecordExists
    /\ op[c].k \in DOMAIN sent /\ sent[op[c].k] = NilSlice
    /\ data[op[c].k] = NilSlice

\* The Stop() calls whose send was received: about to return, or returned.
Released == {s \in Stoppers : stop[s] \in {"woken", "returned"}}
\* The goroutines that have ended.
Ended == {t \in Tasks : hb[t] = "done"}

\* C19 as stated: in every reachable state the number of Stop() calls that have
\* returned equals the number of heartbeat goroutines that have ended.
C19_ReturnsEqualTerminations == Cardinality(StopsReturned) = Cardinality(Ended)

\* C19, amended: in every reachable state the number of Stop() calls whose send
\* was received (returned, or about to return) equals the number of goroutines
\* that have received a stop signal (ended, or at their return statement), so
\* the Stop() calls returned and the goroutines ended are equally many whenever
\* none of either is on its way out, and of two Stop() calls made against one
\* goroutine exactly one is released once the goroutine has received, the
\* other staying parked.
C19_StopsMatchTerminations ==
  /\ Cardinality(Released) = Cardinality(Stopped)
  /\ (Released = StopsReturned /\ Stopped = Ended) =>
       Cardinality(StopsReturned) = Cardinality(Ended)
  /\ (Cardinality(Started) = 1 /\ Cardinality(StopCalls) = 2 /\ Stopped # {}) =>
       /\ Cardinality(Released) = 1
       /\ \E s \in Stoppers : stop[s] = "send" /\ s \in test

\* Of two Stop() calls against the one goroutine started, which has ended, one
\* has returned and the other is parked.
C19_Witness ==
  /\ Cardinality(Started) = 1 /\ Cardinality(Ended) = 1
  /\ Cardinality(StopCalls) = 2 /\ Cardinality(StopsReturned) = 1
  /\ \E s \in Stoppers : stop[s] = "send"

\* Goroutine t is at its first select: started, no heartbeat call made yet.
AtFirstCheck(t) == hb[t] = "select" /\ out[t] = NoOutcome

\* C20: a Stop() call parked while no goroutine runs is not discarded: it is
\* still parked after Heartbeats(), the new goroutine at its first select can
\* only receive, and with the one Stop() call parked before the one goroutine
\* is started no heartbeat call is ever made, the goroutine ends and that
\* Stop() call returns; with no Stop() call parked the goroutine's first select
\* takes it into its first heartbeat call, which comes before its first sleep.
C20_BlockedStopNotDiscarded ==
  /\ [][\A t \in Tasks :
          /\ hb[t] = "none" /\ hb'[t] # "none" => hb'[t] = "select" /\ test' = test
          /\ AtFirstCheck(t) /\ test # {} /\ hb'[t] # hb[t] => hb'[t] = "recv"
          /\ AtFirstCheck(t) /\ test = {} /\ hb'[t] # hb[t] => hb'[t] = "call"
          /\ hb'[t] = "sleep" /\ hb[t] # "sleep" => hb[t] = "call"]_vars
  /\ \A t \in SysTasks, s \in SysStoppers :
       /\ [](hb[t] = "none" /\ stop[s] = "send"
               => [](hb[t] \notin {"call", "sleep"} /\ out[t] = NoOutcome))
       /\ (AtFirstCheck(t) /\ stop[s] = "send")
            ~> (hb[t] = "done" /\ out[t] = NoOutcome /\ stop[s] = "returned")

\* The goroutine has ended without having made a heartbeat call and the Stop()
\* call has returned.
C20_Witness ==
  \E t \in SysTasks, s \in SysStoppers :
    hb[t] = "done" /\ out[t] = NoOutcome /\ stop[s] = "returned"

====
